---- MODULE Spec2Model ----
(***************************************************************************)
(* Hand-controlled particle morph: the gesture extractor                   *)
(* (components/HandController.tsx), the per-frame signal smoother, the     *)
(* particle generator and the blast overlay of the vertex shader           *)
(* (components/ButterflyCurve.tsx, bundled in App.tsx).                    *)
(*                                                                         *)
(* Numbers are exact rationals held as integers over a fixed denominator:  *)
(*   landmark coordinates        1.0 = LM                                  *)
(*   HandState.pinch             1.0 = PinchSpan (the 0.15 span of line    *)
(*                               102 in landmark units)                    *)
(*   HandState.rotation          one unit = pi/4                           *)
(*   smoothed uniforms           1.0 = VisScale, PinScale, MagScale,       *)
(*                               BlastScale; RotScale per pi/4             *)
(* The uniform scales carry one factor of the lerp rate's denominator per  *)
(* render frame, so every lerp of a run of at most MaxFrames frames is an  *)
(* exact division (ExactArithmetic states it).  IEEE rounding is not       *)
(* modelled.                                                               *)
(***************************************************************************)
EXTENDS Integers, Sequences, FiniteSets, TLC

VARIABLES
    hand,       \* handStateRef.current
    sample,     \* the detector result the extractor handled last
    uVisible, uPinch, uMagic, uRotation, uBlast,   \* material uniforms
    frames,     \* render frames executed (the clock of uTime)
    numPoints, idx, pts, prog,   \* the locals of the geometry useMemo
    gen,        \* position of the generator in its loops
    particle,   \* the hash values of the vertex being shaded
    shBlast,    \* uBlast as the vertex shader reads it, in 1/BlastGrid
    vBlastAlpha, blastDisp,      \* outputs of the shader's blast section
    ctl,        \* HandController: its refs and the position of its callbacks
    params,     \* the ButterflyParams handed to the generator
    shMagic,    \* uMagic as the vertex shader reads it, in 1/MagicGrid
    blendIn,    \* butterflyPos, magicPos and the noise hashes of the vertex
    finalPos, noise,             \* outputs of the shader's blend section
    uBlastFx,   \* uBlast as a rounded number, 1.0 = FxScale
    decay,      \* frames the blast has ramped and frames it has decayed
    shPinch,    \* uPinch as the vertex shader reads it, in 1/PinchGrid
    vertex,     \* ringID, segmentProgress and radius inputs of the vertex
    orbScale, radius, pointSize, \* outputs of the shader's size parts
    projectiles,     \* the projectiles state of NumberProjectiles
    clock,           \* state.clock.getElapsedTime(), in 1/20 s
    lastSpawnTime,   \* lastSpawnTimeRef.current
    nextId           \* nextIdRef.current

handVars == <<hand, sample>>
uniVars  == <<uVisible, uPinch, uMagic, uRotation, uBlast, frames>>
genVars  == <<numPoints, idx, pts, prog, gen>>
shVars   == <<particle, shBlast, vBlastAlpha, blastDisp>>
ctlVars  == <<ctl, params>>
blendVars == <<shMagic, blendIn, finalPos, noise>>
decayVars == <<uBlastFx, decay>>
sizeVars  == <<shPinch, vertex, orbScale, radius, pointSize>>
projVars  == <<projectiles, clock, lastSpawnTime, nextId>>

----------------------------------------------------------------------------
(* Bounds and scales *)

MaxFrames == 4

LM == 10^4

Min(a, b) == IF a < b THEN a ELSE b
Max(a, b) == IF a > b THEN a ELSE b

RECURSIVE SqrtSearch(_, _, _)
SqrtSearch(n, lo, hi) ==
    IF lo >= hi THEN lo
    ELSE LET mid == (lo + hi + 1) \div 2
         IN  IF mid * mid <= n THEN SqrtSearch(n, mid, hi)
                               ELSE SqrtSearch(n, lo, mid - 1)

\* Math.sqrt on landmark units; exact on the perfect squares the sampled
\* poses produce for the pinch and finger distances, rounded down otherwise
Sqrt(n) == SqrtSearch(n, 0, 46340)

----------------------------------------------------------------------------
(* HandState: types (unnamed/part_000) and its initial value (App.tsx)     *)

PinchFloor == 200       \* 0.02, "touching"
PinchSpan  == 1500      \* 0.15, so that 0.17 is "open"

DirScale == 10^4        \* fingertip direction components, 1.0 = DirScale

InitFingerTips ==
    << [x |-> 5000, y |-> 3000, dirX |-> 0, dirY |-> -DirScale],
       [x |-> 5000, y |-> 2000, dirX |-> 0, dirY |-> -DirScale],
       [x |-> 5000, y |-> 2000, dirX |-> 0, dirY |-> -DirScale],
       [x |-> 5000, y |-> 2000, dirX |-> 0, dirY |-> -DirScale],
       [x |-> 5000, y |-> 3000, dirX |-> 0, dirY |-> -DirScale] >>

InitHandState ==
    [ detected   |-> FALSE,
      x          |-> 5000,
      y          |-> 5000,
      palmX      |-> 5000,
      palmY      |-> 5000,
      pinch      |-> PinchSpan,
      rotation   |-> 0,
      fingerTips |-> InitFingerTips,
      blast      |-> 0 ]

----------------------------------------------------------------------------
(* Gesture extractor: predictWebcam                                        *)

fingerTipIndices == <<4, 8, 12, 16, 20>>
fingerMCPIndices == <<2, 5, 9, 13, 17>>

\* Math.atan2(vecY, vecX) in units of pi/4, for the axis and diagonal
\* directions the sampled poses use
Atan2(vy, vx) ==
    CASE vy = 0 /\ vx > 0        -> 0
      [] vy > 0 /\ vx = vy       -> 1
      [] vy > 0 /\ vx = 0        -> 2
      [] vy > 0 /\ vx = -vy      -> 3
      [] vy = 0 /\ vx < 0        -> 4
      [] vy < 0 /\ vx = vy       -> -3
      [] vy < 0 /\ vx = 0        -> -2
      [] vy < 0 /\ vx = -vy      -> -1
      [] vy = 0 /\ vx = 0        -> 0

PalmCenterX(lm) ==
    (lm[0].x + lm[1].x + lm[5].x + lm[9].x + lm[13].x + lm[17].x) \div 6
PalmCenterY(lm) ==
    (lm[0].y + lm[1].y + lm[5].y + lm[9].y + lm[13].y + lm[17].y) \div 6

PinchDist(lm) ==
    LET pinchDx == lm[4].x - lm[8].x
        pinchDy == lm[4].y - lm[8].y
        pinchDz == lm[4].z - lm[8].z
    IN  Sqrt(pinchDx * pinchDx + pinchDy * pinchDy + pinchDz * pinchDz)

\* Math.min(Math.max((dist - 0.02) / 0.15, 0), 1), numerator over PinchSpan
MutPinchStrength(dist) == Max(dist - PinchFloor, 0)

PinchStrength(dist) == Min(Max(dist - PinchFloor, 0), PinchSpan)

RotationRad(lm) == Atan2(lm[9].y - lm[0].y, lm[9].x - lm[0].x) + 2

MutFingerTipOf(lm, tipIdx) ==
    LET tip  == lm[tipIdx]
        dirX == tip.x - PalmCenterX(lm)
        dirY == tip.y - PalmCenterY(lm)
        len  == Sqrt(dirX * dirX + dirY * dirY)
    IN  [ x    |-> LM - tip.x,
          y    |-> tip.y,
          dirX |-> IF len > 10 THEN (dirX * DirScale) \div len ELSE 0,
          dirY |-> IF len > 10 THEN (dirY * DirScale) \div len ELSE 0 ]

\* one element of fingerTipIndices.map(...): len > 0.001 is len > 10 units
FingerTipOf(lm, tipIdx) ==
    LET tip  == lm[tipIdx]
        dirX == tip.x - PalmCenterX(lm)
        dirY == tip.y - PalmCenterY(lm)
        len  == Sqrt(dirX * dirX + dirY * dirY)
    IN  [ x    |-> LM - tip.x,
          y    |-> tip.y,
          dirX |-> IF len > 10 THEN (-dirX * DirScale) \div len ELSE 0,
          dirY |-> IF len > 10 THEN (dirY * DirScale) \div len ELSE 0 ]

FingerTipsOf(lm) == [i \in 1..5 |-> FingerTipOf(lm, fingerTipIndices[i])]

TipDistToWrist(lm, i) ==
    LET tip == lm[fingerTipIndices[i]]
    IN  Sqrt((tip.x - lm[0].x) * (tip.x - lm[0].x)
             + (tip.y - lm[0].y) * (tip.y - lm[0].y))

McpDistToWrist(lm, i) ==
    LET mcp == lm[fingerMCPIndices[i]]
    IN  Sqrt((mcp.x - lm[0].x) * (mcp.x - lm[0].x)
             + (mcp.y - lm[0].y) * (mcp.y - lm[0].y))

\* the loop of lines 140-159 from finger i (1-based: 2..5 are index..pinky)
RECURSIVE FingersExtended(_, _)
FingersExtended(lm, i) ==
    IF i > 5 THEN 0
    ELSE (IF 10 * TipDistToWrist(lm, i) > 12 * McpDistToWrist(lm, i)
          THEN 1 ELSE 0) + FingersExtended(lm, i + 1)

RECURSIVE FingersCurled(_, _)
FingersCurled(lm, i) ==
    IF i > 5 THEN 0
    ELSE (IF 10 * TipDistToWrist(lm, i) > 12 * McpDistToWrist(lm, i) THEN 0
          ELSE IF 10 * TipDistToWrist(lm, i) < 9 * McpDistToWrist(lm, i)
          THEN 1 ELSE 0) + FingersCurled(lm, i + 1)

MutIsFist(lm, pinchStrength) == FingersCurled(lm, 2) >= 3

\* fingersCurled >= 3 && pinchStrength < 0.3
IsFist(lm, pinchStrength) ==
    FingersCurled(lm, 2) >= 3 /\ 10 * pinchStrength < 3 * PinchSpan

BlastValue(lm, pinchStrength) == IF IsFist(lm, pinchStrength) THEN 1 ELSE 0

\* the object literal of lines 166-178
DetectedHandState(lm) ==
    LET pinchX == (lm[4].x + lm[8].x) \div 2
        pinchY == (lm[4].y + lm[8].y) \div 2
        pinchStrength == PinchStrength(PinchDist(lm))
    IN  [ detected   |-> TRUE,
          x          |-> LM - pinchX,
          y          |-> pinchY,
          palmX      |-> LM - PalmCenterX(lm),
          palmY      |-> PalmCenterY(lm),
          pinch      |-> pinchStrength,
          rotation   |-> RotationRad(lm),
          fingerTips |-> FingerTipsOf(lm),
          blast      |-> BlastValue(lm, pinchStrength) ]

MutNoHandState(hs) == [InitHandState EXCEPT !.detected = FALSE]

\* { ...handStateRef.current, detected: false }
NoHandState(hs) == [hs EXCEPT !.detected = FALSE]

----------------------------------------------------------------------------
(* Detector results: landmarks.length = 0, or one hand's landmarks.  The   *)
(* sampled hands have the wrist, the knuckles at fixed offsets from it,    *)
(* each non-thumb fingertip on the ray wrist->knuckle at f/10 of the       *)
(* knuckle distance, and the thumb tip at an offset from the index tip.    *)

NoLandmarks == << >>

LmIdx == {0, 1, 2, 4, 5, 8, 9, 12, 13, 16, 17, 20}

\* knuckles of index, middle, ring, pinky: v across the palm, u along it
McpLocal == << [v |-> -500, u |-> 1200], [v |-> 0,   u |-> 1200],
               [v |-> 500,  u |-> 1200], [v |-> 900, u |-> 1200] >>
ThumbBaseLocal == [v |-> -600, u |-> 300]
ThumbMcpLocal  == [v |-> -900, u |-> 600]

WristOf(o) == IF o = "up" THEN [x |-> 5000, y |-> 8000]
                          ELSE [x |-> 2000, y |-> 5000]

Place(o, p) ==
    IF o = "up" THEN [x |-> WristOf(o).x + p.v, y |-> WristOf(o).y - p.u, z |-> 0]
                ELSE [x |-> WristOf(o).x + p.u, y |-> WristOf(o).y + p.v, z |-> 0]

TipLocal(k, f) == [v |-> (McpLocal[k].v * f) \div 10, u |-> (McpLocal[k].u * f) \div 10]

Pose(o, f, off) ==
    LET indexTip == Place(o, TipLocal(1, f[1]))
    IN  [i \in LmIdx |->
            CASE i = 0  -> Place(o, [v |-> 0, u |-> 0])
              [] i = 1  -> Place(o, ThumbBaseLocal)
              [] i = 2  -> Place(o, ThumbMcpLocal)
              [] i = 4  -> [x |-> indexTip.x + off[1], y |-> indexTip.y + off[2],
                            z |-> off[3]]
              [] i = 5  -> Place(o, McpLocal[1])
              [] i = 8  -> indexTip
              [] i = 9  -> Place(o, McpLocal[2])
              [] i = 12 -> Place(o, TipLocal(2, f[2]))
              [] i = 13 -> Place(o, McpLocal[3])
              [] i = 16 -> Place(o, TipLocal(3, f[3]))
              [] i = 17 -> Place(o, McpLocal[4])
              [] i = 20 -> Place(o, TipLocal(4, f[4])) ]

\* thumb-tip offsets from the index tip; distances 100, 200, 500, 648, 650,
\* 800, 1400, 1700 and 2000 landmark units
ThumbOffsets ==
    { <<60, 80, 0>>, <<120, 160, 0>>, <<0, 300, 400>>, <<0, 0, 648>>,
      <<250, 600, 0>>, <<480, 640, 0>>, <<0, 840, 1120>>, <<800, 1500, 0>>,
      <<1200, 1600, 0>> }

FingerConfigs ==
    [1..4 -> {5, 20}]
      \cup { <<10, 10, 10, 10>>, <<12, 12, 12, 12>>, <<9, 9, 9, 9>>,
             <<5, 5, 5, 10>>, <<5, 5, 12, 12>>, <<5, 5, 5, 12>>,
             <<5, 5, 5, 9>>, <<5, 5, 9, 9>>, <<9, 5, 5, 5>>, <<9, 9, 5, 5>> }

\* a fist with the thumb tip on the palm centre (5050, 7150), 430 units
\* from the index tip
ThumbOnPalmPose == Pose("up", <<5, 5, 5, 5>>, <<300, -250, 180>>)

AllPoses ==
    { Pose("up", f, off) : f \in FingerConfigs, off \in ThumbOffsets }
      \cup { Pose("right", f, off) :
               f \in { <<5, 5, 5, 5>>, <<20, 20, 20, 20>> },
               off \in { <<0, 300, 400>>, <<800, 1500, 0>> } }
      \cup { ThumbOnPalmPose }

\* the hands shown to the render loop: open, pinched, half pinched, fist,
\* and an open hand turned a quarter turn
FramePoses ==
    { Pose("up", <<20, 20, 20, 20>>, <<800, 1500, 0>>),
      Pose("up", <<20, 20, 20, 20>>, <<120, 160, 0>>),
      Pose("up", <<20, 20, 20, 20>>, <<480, 640, 0>>),
      Pose("up", <<5, 5, 5, 5>>, <<0, 300, 400>>),
      Pose("right", <<20, 20, 20, 20>>, <<800, 1500, 0>>) }

----------------------------------------------------------------------------
(* One sample of predictWebcam with the video running *)

MutPredictWebcam(lm) ==
    /\ sample' = lm
    /\ hand' = IF lm /= NoLandmarks
               THEN [hand EXCEPT !.detected = TRUE,
                                 !.pinch = DetectedHandState(lm).pinch,
                                 !.rotation = DetectedHandState(lm).rotation]
               ELSE NoHandState(hand)
    /\ UNCHANGED <<uniVars, genVars, shVars, ctlVars, blendVars,
                   decayVars, sizeVars, projVars>>

PredictWebcam(lm) ==
    /\ sample' = lm
    /\ hand' = IF lm /= NoLandmarks THEN DetectedHandState(lm)
                                    ELSE NoHandState(hand)
    /\ UNCHANGED <<uniVars, genVars, shVars, ctlVars, blendVars,
                   decayVars, sizeVars, projVars>>

SampleHand == \E lm \in AllPoses : PredictWebcam(lm)

SampleFrameHand == \E lm \in FramePoses : PredictWebcam(lm)

SampleNoHand == PredictWebcam(NoLandmarks)

----------------------------------------------------------------------------
(* Signal smoother: the useFrame callback of ButterflyCurve                *)

VisScale   == 10^MaxFrames
PinScale   == 20 * 25^MaxFrames
MagScale   == 125 * 25^MaxFrames
RotScale   == 10^MaxFrames
BlastScale == 50^MaxFrames

RECURSIVE GCD(_, _)
GCD(a, b) == IF b = 0 THEN a ELSE GCD(b, a % b)

\* the rational num/den over the denominator scale; den/gcd divides scale
\* for every hand of FramePoses
Rescale(num, den, scale) ==
    LET g == GCD(num, den) IN (num \div g) * (scale \div (den \div g))

MutLerp(x, y, num, den) == x + (den + num) * ((y - x) \div den)

\* THREE.MathUtils.lerp(x, y, t) = (1 - t) * x + t * y with t = num/den,
\* as x + t * (y - x); den divides y - x in every frame of a bounded run
Lerp(x, y, num, den) == x + num * ((y - x) \div den)

\* THREE.MathUtils.smoothstep(pinch, 0.3, 0.8) on a pinch over PinchSpan:
\* 0 at or below min, 1 at or above max, t*t*(3 - 2t) with
\* t = (x - min)/(max - min) in between; the result is over MagScale
SmoothstepPinch(x) ==
    LET min == (3 * PinchSpan) \div 10
        max == (8 * PinchSpan) \div 10
        n   == x - min
        w   == max - min
        num == n * n * (3 * w - 2 * n)
        den == w * w * w
    IN  IF x <= min THEN 0
        ELSE IF x >= max THEN MagScale
        ELSE Rescale(num, den, MagScale)

\* lines 821-834: the targets read from handStateRef.current
VisibleTarget(hs) == IF hs.detected THEN VisScale ELSE 0

MutPinchValue(hs) == IF hs.detected THEN Rescale(hs.pinch, PinchSpan, PinScale)
                                    ELSE 0

PinchValue(hs)    == IF hs.detected THEN Rescale(hs.pinch, PinchSpan, PinScale)
                                    ELSE PinScale
MagicValue(hs)    == IF hs.detected THEN SmoothstepPinch(hs.pinch) ELSE 0
RotationTarget(hs) == IF hs.detected THEN hs.rotation * RotScale ELSE 0

MutBlastTarget(hs) == hs.blast

BlastTarget(hs)   == IF hs.detected THEN hs.blast ELSE 0

MutNextVisible(cur, hs) ==
    IF hs.detected THEN Lerp(cur, VisibleTarget(hs), 1, 10) ELSE 0

NextVisible(cur, hs)  == Lerp(cur, VisibleTarget(hs), 1, 10)
NextPinch(cur, hs)    == Lerp(cur, PinchValue(hs), 3, 25)
NextMagic(cur, hs)    == Lerp(cur, MagicValue(hs), 2, 25)
NextRotation(cur, hs) == Lerp(cur, RotationTarget(hs), 1, 10)

\* lines 865-872: ramp at 0.08 while the target is above 0.5, else decay
\* at 0.06
NextBlast(cur, blastTarget) ==
    IF 2 * blastTarget > 1 THEN Lerp(cur, BlastScale, 4, 50)
                           ELSE Lerp(cur, 0, 3, 50)

MutFrame ==
    /\ frames < MaxFrames
    /\ frames' = frames + 1
    /\ uVisible'  = NextVisible(uVisible, hand)
    /\ uPinch'    = NextPinch(uPinch, hand)
    /\ uMagic'    = NextMagic(uMagic, hand)
    /\ uRotation' = NextRotation(uRotation, hand)
    /\ uBlast'    = NextBlast(uBlast, BlastTarget(hand))
    /\ prog' = IF BlastTarget(hand) = 1 THEN [k \in DOMAIN prog |-> 0]
                                        ELSE prog
    /\ UNCHANGED <<handVars, numPoints, idx, pts, gen, shVars, ctlVars,
                   blendVars,
                   decayVars, sizeVars, projVars>>

\* one call of the useFrame callback (materialRef.current set)
Frame ==
    /\ frames < MaxFrames
    /\ frames' = frames + 1
    /\ uVisible'  = NextVisible(uVisible, hand)
    /\ uPinch'    = NextPinch(uPinch, hand)
    /\ uMagic'    = NextMagic(uMagic, hand)
    /\ uRotation' = NextRotation(uRotation, hand)
    /\ uBlast'    = NextBlast(uBlast, BlastTarget(hand))
    /\ UNCHANGED <<handVars, genVars, shVars, ctlVars, blendVars,
                   decayVars, sizeVars, projVars>>

----------------------------------------------------------------------------
(* Geometry generator: the useMemo of ButterflyCurve.  A base position is  *)
(* held as the loop that pushed it and its loop indices: kind, the edge or *)
(* ring number a, the index i and the loop's count n; its coordinates are  *)
(* the closed forms of lines 746-749, 760-775, 784-790 and 799-805.        *)

MaxPoints == 200

NumEdges == 30      \* icoEdges.length

IcoPoints(n)      == (2 * n) \div 10                 \* Math.floor(numPoints * 0.2)
PointsPerEdge(n)  == IcoPoints(n) \div NumEdges
RingPoints(n)     == (3 * n) \div 10                 \* Math.floor(numPoints * 0.3)
PointsPerRing(n)  == RingPoints(n) \div 3
SpiralPoints(n)   == (3 * n) \div 10

MutFloatPoints(n, i) == n - IcoPoints(n) - RingPoints(n) - SpiralPoints(n)

\* const floatPoints = numPoints - idx
FloatPoints(n, i) == n - i

GenIdle ==
    /\ numPoints = 0
    /\ idx = 0
    /\ pts = << >>
    /\ prog = << >>
    /\ gen = [phase |-> "idle", a |-> 0, i |-> 0, floatPoints |-> 0]

\* pts.push(x, y, z); prog.push(idx++ / numPoints): progress is kept as its
\* numerator over numPoints
Push(kind, a, i, n) ==
    /\ pts' = Append(pts, [kind |-> kind, a |-> a, i |-> i, n |-> n])
    /\ prog' = Append(prog, idx)
    /\ idx' = idx + 1

IcoPoint ==
    /\ gen.phase = "ico" /\ gen.a < NumEdges /\ gen.i < PointsPerEdge(numPoints)
    /\ Push("ico", gen.a, gen.i, PointsPerEdge(numPoints))
    /\ gen' = [gen EXCEPT !.i = gen.i + 1]
    /\ UNCHANGED <<numPoints, handVars, uniVars, shVars, ctlVars, blendVars,
                   decayVars, sizeVars, projVars>>

IcoNextEdge ==
    /\ gen.phase = "ico" /\ gen.a < NumEdges /\ gen.i >= PointsPerEdge(numPoints)
    /\ gen' = [gen EXCEPT !.a = gen.a + 1, !.i = 0]
    /\ UNCHANGED <<numPoints, idx, pts, prog, handVars, uniVars, shVars, ctlVars, blendVars,
                   decayVars, sizeVars, projVars>>

IcoExit ==
    /\ gen.phase = "ico" /\ gen.a >= NumEdges
    /\ gen' = [gen EXCEPT !.phase = "rings", !.a = 0, !.i = 0]
    /\ UNCHANGED <<numPoints, idx, pts, prog, handVars, uniVars, shVars, ctlVars, blendVars,
                   decayVars, sizeVars, projVars>>

RingPoint ==
    /\ gen.phase = "rings" /\ gen.a < 3 /\ gen.i < PointsPerRing(numPoints)
    /\ Push("rings", gen.a, gen.i, PointsPerRing(numPoints))
    /\ gen' = [gen EXCEPT !.i = gen.i + 1]
    /\ UNCHANGED <<numPoints, handVars, uniVars, shVars, ctlVars, blendVars,
                   decayVars, sizeVars, projVars>>

RingNext ==
    /\ gen.phase = "rings" /\ gen.a < 3 /\ gen.i >= PointsPerRing(numPoints)
    /\ gen' = [gen EXCEPT !.a = gen.a + 1, !.i = 0]
    /\ UNCHANGED <<numPoints, idx, pts, prog, handVars, uniVars, shVars, ctlVars, blendVars,
                   decayVars, sizeVars, projVars>>

RingsExit ==
    /\ gen.phase = "rings" /\ gen.a >= 3
    /\ gen' = [gen EXCEPT !.phase = "spiral", !.a = 0, !.i = 0]
    /\ UNCHANGED <<numPoints, idx, pts, prog, handVars, uniVars, shVars, ctlVars, blendVars,
                   decayVars, sizeVars, projVars>>

SpiralPoint ==
    /\ gen.phase = "spiral" /\ gen.i < SpiralPoints(numPoints)
    /\ Push("spiral", 0, gen.i, SpiralPoints(numPoints))
    /\ gen' = [gen EXCEPT !.i = gen.i + 1]
    /\ UNCHANGED <<numPoints, handVars, uniVars, shVars, ctlVars, blendVars,
                   decayVars, sizeVars, projVars>>

SpiralExit ==
    /\ gen.phase = "spiral" /\ gen.i >= SpiralPoints(numPoints)
    /\ gen' = [gen EXCEPT !.phase = "float", !.i = 0,
                          !.floatPoints = FloatPoints(numPoints, idx)]
    /\ UNCHANGED <<numPoints, idx, pts, prog, handVars, uniVars, shVars, ctlVars, blendVars,
                   decayVars, sizeVars, projVars>>

FloatPoint ==
    /\ gen.phase = "float" /\ gen.i < gen.floatPoints
    /\ Push("float", 0, gen.i, gen.floatPoints)
    /\ gen' = [gen EXCEPT !.i = gen.i + 1]
    /\ UNCHANGED <<numPoints, handVars, uniVars, shVars, ctlVars, blendVars,
                   decayVars, sizeVars, projVars>>

\* return { positions, progress }
FloatExit ==
    /\ gen.phase = "float" /\ gen.i >= gen.floatPoints
    /\ gen' = [gen EXCEPT !.phase = "done"]
    /\ UNCHANGED <<numPoints, idx, pts, prog, handVars, uniVars, shVars, ctlVars, blendVars,
                   decayVars, sizeVars, projVars>>

\* the structure the vertex shader selects from aProgress = p / n
Structure(p, n) ==
    IF 10 * p < 2 * n THEN "ico"
    ELSE IF 10 * p < 5 * n THEN "rings"
    ELSE IF 10 * p < 8 * n THEN "spiral"
    ELSE "float"

\* Rings: float ringIdx = floor((aProgress - 0.2) / 0.1), for a vertex the
\* shader selected as a ring vertex (aProgress = p / n >= 0.2)
RingIdx(p, n) == (10 * p - 2 * n) \div n

\* rotSpeed = 0.4 + ringIdx * 0.2, in tenths
RotSpeed(k) == 4 + 2 * k

MutRotDir(k) == 1

\* rotDir = mod(ringIdx, 2.0) < 1.0 ? 1.0 : -1.0
RotDir(k) == IF k % 2 < 1 THEN 1 ELSE -1

\* the plane of the rotation applied to orbPos
RingPlane(k) == IF k < 1 THEN "xy" ELSE IF k < 2 THEN "xz" ELSE "yz"

----------------------------------------------------------------------------
(* Blast section of the vertex shader (4. BLAST EFFECT), for one vertex.   *)
(* hash() is pseudo-random in [0,1): a vertex carries one quarter-valued   *)
(* hash per use.  Offsets are in 1/1000 world units, rounded; uBlast is in *)
(* 1/BlastGrid; vBlastAlpha is exact over AlphaScale.                      *)

BlastGrid  == 10^2
AlphaScale == 216 * 10^3       \* (1.0 - 0.4)^3 over BlastGrid^3

BlastLevels == {0, 1, 2, 5, 10, 20, 30, 39, 40, 41, 50, 60, 70, 85, 99, 100}

Particles ==
    [angle : 0..3, speed : {0, 3}, up : {0, 3}, depth : {0, 3}, spin : {1, 2}]

\* (sin(spin), cos(spin)) in 1/1000: (0, 1) at spin = 0, else some point of
\* the unit circle
SpinPoints(b, p) ==
    IF b = 0 \/ p.spin = 2 THEN { <<0, 1000>> }
    ELSE { <<600, 800>>, <<-600, 800>>, <<800, -600>>, <<-800, -600>> }

\* GLSL smoothstep(e0, e1, x) = t*t*(3 - 2t), t = clamp((x - e0)/(e1 - e0)),
\* as a numerator over (e1 - e0)^3
SmoothstepNum(e0, e1, x) ==
    LET n == Min(Max(x - e0, 0), e1 - e0)
    IN  n * n * (3 * (e1 - e0) - 2 * n)

MutBlastAlpha(b) == AlphaScale - (SmoothstepNum(30, 100, b) * 216) \div 343

\* vBlastAlpha = 1.0 - smoothstep(0.4, 1.0, blastProgress)
BlastAlpha(b) == AlphaScale - SmoothstepNum(40, 100, b)

\* blastOffset of lines 574-607, in 1/1000
BlastOffset(b, p, sc) ==
    LET cosA == CASE p.angle = 0 -> 1 [] p.angle = 1 -> 0
                  [] p.angle = 2 -> -1 [] p.angle = 3 -> 0
        sinA == CASE p.angle = 0 -> 0 [] p.angle = 1 -> 1
                  [] p.angle = 2 -> 0 [] p.angle = 3 -> -1
        randSpeed  == 800 + p.speed * 625          \* 0.8 + hash * 2.5
        randUpward == p.up * 300                   \* hash * 1.2
        dirX == (cosA * randSpeed * 15) \div 10
        dirY == (sinA * randSpeed * 6) \div 10 + randUpward
        dirZ == ((p.depth - 2) * randSpeed * 8) \div 40
        \* blastTime * 12.0 * decel = (2b) * 12 * (1 - b/2), over 2*BlastGrid^2
        td   == 24 * b * (2 * BlastGrid - b)
        \* gravity * blastTime^2 * fallDelay
        fall == (((32 * b * b) \div 10) * SmoothstepNum(0, 30, b)) \div 27000
    IN  << (dirX * td) \div (2 * BlastGrid * BlastGrid) + (sc[1] * 3) \div 10,
           (dirY * td) \div (2 * BlastGrid * BlastGrid) - fall,
           (dirZ * td) \div (2 * BlastGrid * BlastGrid) + (sc[2] * 3) \div 10 >>

\* easeBlast = 1 - (1 - blastProgress)^3, in 1/1000
EaseBlast(b) ==
    (BlastGrid * BlastGrid * BlastGrid
       - (BlastGrid - b) * (BlastGrid - b) * (BlastGrid - b)) \div 1000

\* if (uBlast > 0.01)
BlastActive(b) == 100 * b > BlastGrid

\* finalPos after the blast section minus finalPos before it:
\* mix(finalPos, finalPos + blastOffset, easeBlast) - finalPos
BlastDisplacement(b, p, sc) ==
    IF BlastActive(b)
    THEN [k \in 1..3 |-> (BlastOffset(b, p, sc)[k] * EaseBlast(b)) \div 1000]
    ELSE <<0, 0, 0>>

\* vBlastAlpha: 1.0 by default (line 97), faded inside the blast section
VertexBlastAlpha(b) == IF BlastActive(b) THEN BlastAlpha(b) ELSE AlphaScale

ShaderIdle ==
    /\ particle = [angle |-> 0, speed |-> 0, up |-> 0, depth |-> 0, spin |-> 2]
    /\ shBlast = 0
    /\ vBlastAlpha = AlphaScale
    /\ blastDisp = <<0, 0, 0>>

\* one run of the blast section for the vertex, at some value of uBlast
ShadeVertex ==
    /\ \E b \in BlastLevels : \E sc \in SpinPoints(b, particle) :
         /\ shBlast' = b
         /\ vBlastAlpha' = VertexBlastAlpha(b)
         /\ blastDisp' = BlastDisplacement(b, particle, sc)
    /\ UNCHANGED <<particle, handVars, uniVars, genVars, ctlVars, blendVars,
                   decayVars, sizeVars, projVars>>

----------------------------------------------------------------------------
(* HandController from mount to unmount: initMediaPipe, startCamera, the   *)
(* loadeddata listener, the predictWebcam loop and the effect cleanup.     *)
(* ctl.init is the position of initMediaPipe, ctl.landmarker is            *)
(* landmarkerRef.current ("none" = null), ctl.video is videoRef.current    *)
(* being non-null, ctl.loop is the predictWebcam callback ("listening" =   *)
(* waiting for loadeddata, "scheduled" = a call is queued, "stopped" = it  *)
(* returned without requestAnimationFrame), ctl.width is the videoWidth    *)
(* the last call read, ctl.error is the await whose rejection was logged.  *)

\* the component as mounted, its effect about to run
CtlMounted ==
    [init |-> "vision", landmarker |-> "none", camera |-> "idle",
     loop |-> "off", video |-> TRUE, mounted |-> TRUE, width |-> 0,
     error |-> "none"]

\* the component with its sampling loop running
CtlRunning ==
    [init |-> "done", landmarker |-> "open", camera |-> "granted",
     loop |-> "scheduled", video |-> TRUE, mounted |-> TRUE, width |-> 320,
     error |-> "none"]

\* the videoWidth a call may read
VideoWidths == {0, 320}

\* the hands shown to the mounted component: a fist with the thumb to the
\* right, and a half-closed pinch (pinch = 0.5)
LifePoses ==
    { Pose("right", <<5, 5, 5, 5>>, <<0, 300, 400>>),
      Pose("up", <<20, 20, 20, 20>>, <<570, 760, 0>>) }

\* catch (error) { console.error(...); setIsLoading(false); }
AfterInitFailure(c) == [c EXCEPT !.init = "failed", !.error = c.init]

\* setIsLoading(false); startCamera(), up to its await
AfterInitSuccess(c) ==
    [c EXCEPT !.init = "done", !.landmarker = "open",
              !.camera = IF c.video THEN "asking" ELSE "novideo"]

MutAfterCameraDenied(c) ==
    [c EXCEPT !.camera = "denied", !.error = "camera", !.loop = "listening"]

\* catch (err) { console.error(...); setHasPermission(false); }
AfterCameraDenied(c) == [c EXCEPT !.camera = "denied", !.error = "camera"]

\* videoRef.current.srcObject = stream; addEventListener('loadeddata', ...);
\* with the video element gone the assignment throws into the catch
AfterCameraGranted(c) ==
    IF c.video THEN [c EXCEPT !.camera = "granted", !.loop = "listening"]
    ELSE AfterCameraDenied(c)

MutLoopGuard(c) == c.landmarker /= "none"

\* the negation of: if (!videoRef.current || !landmarkerRef.current) return;
LoopGuard(c) == c.video /\ c.landmarker /= "none"

\* await FilesetResolver.forVisionTasks(...) resolves
ResolveVision ==
    /\ ctl.init = "vision"
    /\ ctl' = [ctl EXCEPT !.init = "create"]
    /\ UNCHANGED <<params, handVars, uniVars, genVars, shVars, blendVars,
                   decayVars, sizeVars, projVars>>

\* await FilesetResolver.forVisionTasks(...) rejects
FailVision ==
    /\ ctl.init = "vision"
    /\ ctl' = AfterInitFailure(ctl)
    /\ UNCHANGED <<params, handVars, uniVars, genVars, shVars, blendVars,
                   decayVars, sizeVars, projVars>>

\* await HandLandmarker.createFromOptions(...) resolves
CreateLandmarker ==
    /\ ctl.init = "create"
    /\ ctl' = AfterInitSuccess(ctl)
    /\ UNCHANGED <<params, handVars, uniVars, genVars, shVars, blendVars,
                   decayVars, sizeVars, projVars>>

\* await HandLandmarker.createFromOptions(...) rejects
FailCreate ==
    /\ ctl.init = "create"
    /\ ctl' = AfterInitFailure(ctl)
    /\ UNCHANGED <<params, handVars, uniVars, genVars, shVars, blendVars,
                   decayVars, sizeVars, projVars>>

\* await navigator.mediaDevices.getUserMedia(...) resolves
GrantCamera ==
    /\ ctl.camera = "asking"
    /\ ctl' = AfterCameraGranted(ctl)
    /\ UNCHANGED <<params, handVars, uniVars, genVars, shVars, blendVars,
                   decayVars, sizeVars, projVars>>

\* await navigator.mediaDevices.getUserMedia(...) rejects
DenyCamera ==
    /\ ctl.camera = "asking"
    /\ ctl' = AfterCameraDenied(ctl)
    /\ UNCHANGED <<params, handVars, uniVars, genVars, shVars, blendVars,
                   decayVars, sizeVars, projVars>>

\* the video fires loadeddata: predictWebcam is called
LoadedData ==
    /\ ctl.loop = "listening"
    /\ ctl' = [ctl EXCEPT !.loop = "scheduled"]
    /\ UNCHANGED <<params, handVars, uniVars, genVars, shVars, blendVars,
                   decayVars, sizeVars, projVars>>

\* predictWebcam returns at its guard: no requestAnimationFrame
PredictReturn ==
    /\ ctl.loop = "scheduled" /\ ~LoopGuard(ctl)
    /\ ctl' = [ctl EXCEPT !.loop = "stopped"]
    /\ UNCHANGED <<params, handVars, uniVars, genVars, shVars, blendVars,
                   decayVars, sizeVars, projVars>>

\* predictWebcam with videoWidth = 0: only requestAnimationFrame
PredictZeroWidth ==
    /\ ctl.loop = "scheduled" /\ LoopGuard(ctl)
    /\ ctl' = [ctl EXCEPT !.width = 0]
    /\ UNCHANGED <<params, handVars, uniVars, genVars, shVars, blendVars,
                   decayVars, sizeVars, projVars>>

\* predictWebcam with videoWidth > 0: detectForVideo, the write of
\* handStateRef.current, requestAnimationFrame
PredictSample ==
    /\ ctl.loop = "scheduled" /\ LoopGuard(ctl)
    /\ \E w \in VideoWidths \ {0} : ctl' = [ctl EXCEPT !.width = w]
    /\ \E lm \in LifePoses \cup {NoLandmarks} :
         /\ sample' = lm
         /\ hand' = IF lm /= NoLandmarks THEN DetectedHandState(lm)
                                         ELSE NoHandState(hand)
    /\ UNCHANGED <<params, uniVars, genVars, shVars, blendVars,
                   decayVars, sizeVars, projVars>>

\* React unmounts the component: videoRef.current is cleared and the effect
\* cleanup closes the landmarker it finds
Unmount ==
    /\ ctl.mounted
    /\ ctl' = [ctl EXCEPT !.mounted = FALSE, !.video = FALSE,
                          !.landmarker = IF ctl.landmarker = "none"
                                         THEN "none" ELSE "closed"]
    /\ UNCHANGED <<params, handVars, uniVars, genVars, shVars, blendVars,
                   decayVars, sizeVars, projVars>>

----------------------------------------------------------------------------
(* Blend section of the vertex shader (3. SMOOTH TRANSITION BLEND), for    *)
(* one vertex.  uMagic is in 1/MagicGrid; positions are in 1/1000 world    *)
(* units, rounded down; cos and sin of rot are in 1/TrigScale; the noise   *)
(* is in 1/NoiseScale.  cos, sin are tabulated at the five values of       *)
(* uMagic, to the nearest unit, for the literals 3.14 and 3.14159 of the   *)
(* shader.                                                                 *)

MagicGrid  == 4
TrigScale  == 10^4
NoiseScale == 10^8

\* easeMagic = smoothstep(0.0, 1.0, uMagic), over MagicGrid^3 / 2 = 32
EaseMagic(m) == SmoothstepNum(0, MagicGrid, m) \div 2

\* <<cos(rot), sin(rot)>> for rot = easeMagic * 3.14
RotTrig(m) ==
    CASE m = 0 -> <<10000, 0>>
      [] m = 1 -> <<8820, 4712>>
      [] m = 2 -> <<8, 10000>>
      [] m = 3 -> <<-8813, 4726>>
      [] m = 4 -> <<-10000, 16>>

\* noiseAmp = sin(uMagic * 3.14159) * 2.5
NoiseAmp(m) ==
    CASE m = 0 -> 0
      [] m = 1 -> 176776578
      [] m = 2 -> 250000000
      [] m = 3 -> 176777047
      [] m = 4 -> 663

\* rotatedButterfly
RotatedButterfly(m, v) ==
    LET bp == v.butterflyPos
        c  == RotTrig(m)[1]
        sn == RotTrig(m)[2]
    IN  << (bp[1] * c - bp[2] * sn) \div TrigScale,
           (bp[1] * sn + bp[2] * c) \div TrigScale,
           bp[3] >>

\* mix(rotatedButterfly, magicPos, easeMagic)
MixPos(m, v) ==
    [k \in 1..3 |->
        (RotatedButterfly(m, v)[k] * (32 - EaseMagic(m))
           + v.magicPos[k] * EaseMagic(m)) \div 32]

\* vec3(hash(..) - 0.5, hash(..) - 0.5, hash(..) - 0.5) * noiseAmp, the
\* hashes in quarters
Noise(m, v) == [k \in 1..3 |-> ((v.hash[k] - 2) * NoiseAmp(m)) \div 4]

\* the vertices shaded: two structure-A positions, two structure-B
\* positions, the three hashes
BlendInputs ==
    [butterflyPos : { <<3000, 4000, 1000>>, <<-5000, 0, 2000>> },
     magicPos : { <<20000, 0, 0>>, <<0, -12000, 500>> },
     hash : [1..3 -> {0, 2, 3}]]

BlendIdle ==
    /\ shMagic = 0
    /\ blendIn = [butterflyPos |-> <<0, 0, 0>>, magicPos |-> <<0, 0, 0>>,
                  hash |-> <<2, 2, 2>>]
    /\ finalPos = <<0, 0, 0>>
    /\ noise = <<0, 0, 0>>

\* one run of the blend section for the vertex, at some value of uMagic and
\* with uBlast = 0: finalPos is the mix of line 567, noise what line 568 adds
BlendVertex ==
    /\ \E m \in 0..MagicGrid :
         /\ shMagic' = m
         /\ finalPos' = MixPos(m, blendIn)
         /\ noise' = Noise(m, blendIn)
    /\ UNCHANGED <<blendIn, handVars, uniVars, genVars, shVars, ctlVars,
                   decayVars, sizeVars, projVars>>

----------------------------------------------------------------------------
(* The configuration the generator is entered with *)

\* App.tsx 7-14: scale 3.5, in 1/10
AppParams == [scale |-> 35]

\* const orbRadius = params.scale * 9.3, in 1/100
OrbRadius(p) == p.scale * 93

MutGenEntry(n, p) == IF n <= 0 \/ p.scale < 0 THEN "error" ELSE "ico"

\* the useMemo body runs from its first statement into the icosahedron
\* loops whatever numPoints and params hold
GenEntry(n, p) == "ico"

----------------------------------------------------------------------------
(* The blast over a long run: the uBlast part of the useFrame callback     *)
(* (lines 864-872) followed by the blast section of the vertex shader.     *)
(* uBlast is held in 1/FxScale and every lerp is rounded to the nearest    *)
(* unit, in place of the IEEE double of the uniform.  The other uniforms   *)
(* of the callback do not enter uBlast; Frame is their model.              *)

FxScale == 10^8

\* if (uBlast > 0.01)
FxThreshold == FxScale \div 100

\* ramp frames of one run
MaxRampFrames == 3

\* the least n with 0.94^n <= 0.01: the frames a blast of 1.0 takes to fall
\* to the threshold at the decay rate 0.06 of line 871
DecayFramesFromOne == 75

\* THREE.MathUtils.lerp(uBlast, 1.0, 0.08)
RampFx(x) == x + (8 * (FxScale - x) + 50) \div 100

MutDecayFx(x) == x + (6 * (2 * FxThreshold - x) + 50) \div 100

\* THREE.MathUtils.lerp(uBlast, 0.0, 0.06)
DecayFx(x) == x - (6 * x + 50) \div 100

\* lines 865-872
NextBlastFx(cur, blastTarget) ==
    IF 2 * blastTarget > 1 THEN RampFx(cur) ELSE DecayFx(cur)

\* uBlast on the grid of the shader model, rounded up so that
\* uBlast > 0.01 is kept
GridBlast(x) ==
    (x + FxScale \div BlastGrid - 1) \div (FxScale \div BlastGrid)

FistPose == Pose("up", <<5, 5, 5, 5>>, <<0, 300, 400>>)
OpenPose == Pose("up", <<20, 20, 20, 20>>, <<800, 1500, 0>>)

\* the vertices followed through the blast
DecayParticles ==
    { [angle |-> 0, speed |-> 3, up |-> 3, depth |-> 0, spin |-> 1],
      [angle |-> 1, speed |-> 0, up |-> 0, depth |-> 3, spin |-> 2] }

DecayIdle ==
    /\ uBlastFx = 0
    /\ decay = [ramp |-> 0, idle |-> 0]

\* a sample of a fist, before the blast has begun to decay
ClenchFist ==
    /\ decay.idle = 0 /\ decay.ramp < MaxRampFrames
    /\ PredictWebcam(FistPose)

\* a sample of an open hand or of no hand
ReleaseFist == \E lm \in {OpenPose, NoLandmarks} : PredictWebcam(lm)

\* one frame: the uBlast lerp, then the blast section for the vertex
BlastFrame ==
    LET target == BlastTarget(hand)
        x == NextBlastFx(uBlastFx, target)
    IN  /\ target = 1 => decay.ramp < MaxRampFrames
        /\ uBlastFx' = x
        /\ decay' = IF target = 1
                    THEN [decay EXCEPT !.ramp = decay.ramp + 1]
                    ELSE [decay EXCEPT
                            !.idle = Min(decay.idle + 1, DecayFramesFromOne + 1)]
        /\ shBlast' = GridBlast(x)
        /\ vBlastAlpha' = VertexBlastAlpha(GridBlast(x))
        /\ \E sc \in SpinPoints(GridBlast(x), particle) :
              blastDisp' = BlastDisplacement(GridBlast(x), particle, sc)
        /\ UNCHANGED <<particle, handVars, uniVars, genVars, ctlVars,
                       blendVars, sizeVars, projVars>>

----------------------------------------------------------------------------
(* Size parts of the vertex shader: orbScale (lines 146-149), the band and *)
(* segment of the vertex (154-156), the gapped arcs of band 3 (373-387)    *)
(* and the point-size guard (619-623).  uPinch is in 1/PinchGrid, orbScale *)
(* in 1/OrbScaleDen, aProgress in 1/ProgGrid, radii in 1/1000.  The radius *)
(* the other branches compute, and gl_PointSize ahead of the guard, come   *)
(* with the vertex.                                                        *)

PinchGrid   == 20
OrbScaleDen == 10^4
ProgGrid    == 24 * 10^3

MutOrbScale(p) == OrbScaleDen - 7 * SmoothstepNum(4, 14, p)

\* orbScale = mix(0.3, 1.0, smoothstep(0.2, 0.7, uPinch))
OrbScale(p) == 3000 + 7 * SmoothstepNum(4, 14, p)

MutRingID(p, n) == (5 * p) \div n

\* ringID = floor(aProgress * 6.0), aProgress = p / n
RingID(p, n) == (6 * p) \div n

\* segmentProgress = fract(aProgress * 6.0), over n
SegmentProgress(p, n) == (6 * p) % n

\* localP * 8.0 of the arcs branch, in 1/100, for a segmentProgress in
\* 1/ProgGrid: (segmentProgress - 0.45) / 0.2 * 8.0
ArcPhase(sp) == (sp - (45 * ProgGrid) \div 100) \div 6

\* else if (segmentProgress < 0.65), after the branches below 0.45
InArcs(a) ==
    /\ RingID(a, ProgGrid) = 3
    /\ 100 * SegmentProgress(a, ProgGrid) >= 45 * ProgGrid
    /\ 100 * SegmentProgress(a, ProgGrid) < 65 * ProgGrid

MutArcRadius(a) ==
    LET ph == ArcPhase(SegmentProgress(a, ProgGrid))
    IN  IF ph % 100 > 15 /\ ph % 100 < 85
        THEN 6800 - ((ph \div 100) % 3) * 400
        ELSE 100

\* r of lines 381-387: arcIdx = floor(localP * 8.0),
\* arcProgress = fract(localP * 8.0)
ArcRadius(a) ==
    LET ph == ArcPhase(SegmentProgress(a, ProgGrid))
    IN  IF ph % 100 > 15 /\ ph % 100 < 85
        THEN 6800 - ((ph \div 100) % 3) * 400
        ELSE 1

Radius(v) == IF InArcs(v.a) THEN ArcRadius(v.a) ELSE v.r

\* if (r < 0.1 && ringID > 0.0) gl_PointSize = 0.0;
PointSize(v) ==
    IF Radius(v) < 100 /\ RingID(v.a, ProgGrid) > 0 THEN 0 ELSE v.size

\* aProgress of the vertices shaded: the start and the middle of each band
\* (outside the arcs), and arcs around their gaps
SizeProgress ==
    { b * 4000 + o : b \in 0..5, o \in {0, 3500} }
      \cup { 3 * 4000 + 1800 + j :
               j \in {0, 15, 16, 50, 84, 85, 99, 100, 116, 285, 799} }

SizeVertices ==
    { v \in [a : SizeProgress, r : {0, 99, 100, 3000}, size : {12}] :
        InArcs(v.a) => v.r = 0 }

SizeIdle ==
    /\ shPinch = PinchGrid
    /\ vertex = [a |-> 0, r |-> 3000, size |-> 12]
    /\ orbScale = OrbScale(PinchGrid)
    /\ radius = 3000
    /\ pointSize = 12

\* one run of the size parts for a vertex, at some value of uPinch
SizeVertex ==
    /\ \E p \in 0..PinchGrid, v \in SizeVertices :
         /\ shPinch' = p
         /\ vertex' = v
         /\ orbScale' = OrbScale(p)
         /\ radius' = Radius(v)
         /\ pointSize' = PointSize(v)
    /\ UNCHANGED <<handVars, uniVars, genVars, shVars, ctlVars, blendVars,
                   decayVars, projVars>>

----------------------------------------------------------------------------
(* NumberProjectiles: its useFrame callback.  The clock is in 1/20 s; a    *)
(* projectile is held as its id, finger and startTime.                     *)

\* the filter's 2.0 s
Lifetime == 40

\* elapsed time of one frame: 0.5 s or 1 s
FrameTimes == {10, 20}

\* spawnInterval = 0.15 + Math.random() * 0.1: 0.15, 0.2 or 0.25
SpawnIntervals == {3, 4, 5}

MaxClock == 50
MaxProjectiles == 2

\* the hands shown: open, a fist, curled fingers with the thumb held out
ProjPoses ==
    { OpenPose, FistPose, Pose("up", <<5, 5, 5, 5>>, <<800, 1500, 0>>) }

ProjIdle ==
    /\ projectiles = {}
    /\ clock = 0
    /\ lastSpawnTime = <<0, 0, 0, 0, 0>>
    /\ nextId = 0

MutSpawnGuard(hs) == hs.detected

\* the negation of the early returns of lines 36-40: detected, and
\* smoothstep(hand.pinch, 0.3, 0.8) >= 0.5
SpawnGuard(hs) ==
    hs.detected /\ SmoothstepPinch(hs.pinch) >= MagScale - SmoothstepPinch(hs.pinch)

\* prev.filter(p => time - p.startTime < 2.0)
Cleanup(ps, time) == { p \in ps : time - p.startTime < Lifetime }

\* the fingers that pass time - lastSpawnTime > spawnInterval
Eligible(time, interval) ==
    { f \in 1..5 : time - lastSpawnTime[f] > interval }

\* the callback returns at one of its guards: nothing is spawned or removed
ProjFrameReturn ==
    /\ clock < MaxClock
    /\ ~SpawnGuard(hand)
    /\ \E dt \in FrameTimes : clock' = clock + dt
    /\ UNCHANGED <<projectiles, lastSpawnTime, nextId>>
    /\ UNCHANGED <<handVars, uniVars, genVars, shVars, ctlVars, blendVars,
                   decayVars, sizeVars>>

\* the callback runs through: the fingers that pass the interval and the
\* Math.random() > 0.4 draw spawn, then the list is filtered
ProjFrameSpawn ==
    /\ clock < MaxClock
    /\ SpawnGuard(hand)
    /\ \E dt \in FrameTimes, interval \in SpawnIntervals :
         LET time == clock + dt
         IN  \E S \in SUBSET Eligible(time, interval) :
               /\ Cardinality(S) <= MaxProjectiles - nextId
               /\ clock' = time
               /\ lastSpawnTime' =
                     [f \in 1..5 |-> IF f \in S THEN time ELSE lastSpawnTime[f]]
               /\ nextId' = nextId + Cardinality(S)
               /\ projectiles' =
                     Cleanup(projectiles \cup
                               { [fingerIndex |-> f, startTime |-> time] :
                                   f \in S }, time)
    /\ UNCHANGED <<handVars, uniVars, genVars, shVars, ctlVars, blendVars,
                   decayVars, sizeVars>>

SampleProjHand == \E lm \in ProjPoses : PredictWebcam(lm)

----------------------------------------------------------------------------
(* Specifications *)

vars == <<hand, sample, uVisible, uPinch, uMagic, uRotation, uBlast, frames,
          numPoints, idx, pts, prog, gen,
          particle, shBlast, vBlastAlpha, blastDisp,
          ctl, params, shMagic, blendIn, finalPos, noise,
          uBlastFx, decay, shPinch, vertex, orbScale, radius, pointSize,
          projectiles, clock, lastSpawnTime, nextId>>

\* refs and uniforms as constructed (App.tsx 19-35, 899-909)
InitRefs ==
    /\ hand = InitHandState
    /\ sample = NoLandmarks
    /\ uVisible = 0
    /\ uPinch = PinScale
    /\ uMagic = 0
    /\ uRotation = 0
    /\ uBlast = 0
    /\ frames = 0

\* the application with HandController sampling
InitApp ==
    /\ InitRefs /\ DecayIdle /\ SizeIdle /\ ProjIdle
    /\ ctl = CtlRunning
    /\ params = AppParams
    /\ BlendIdle

Init == InitApp /\ GenIdle /\ ShaderIdle

\* the sampling loop and the render loop, interleaved
Next == SampleFrameHand \/ SampleNoHand \/ Frame

Spec == Init /\ [][Next]_vars

\* the sampling loop alone, over the wide set of hands
NextExtract == SampleHand \/ SampleNoHand

SpecExtract == Init /\ [][NextExtract]_vars

\* the generator, for a particle count of 1..MaxPoints in place of 40000
InitGen ==
    /\ InitApp /\ ShaderIdle
    /\ numPoints \in 1..MaxPoints
    /\ idx = 0
    /\ pts = << >>
    /\ prog = << >>
    /\ gen = [phase |-> "ico", a |-> 0, i |-> 0, floatPoints |-> 0]

NextGen ==
    \/ IcoPoint \/ IcoNextEdge \/ IcoExit
    \/ RingPoint \/ RingNext \/ RingsExit
    \/ SpiralPoint \/ SpiralExit
    \/ FloatPoint \/ FloatExit

SpecGen == InitGen /\ [][NextGen]_vars

\* the blast section, for every sampled vertex and blast amount
InitShader ==
    /\ InitApp /\ GenIdle
    /\ particle \in Particles
    /\ shBlast = 0
    /\ vBlastAlpha = VertexBlastAlpha(0)
    /\ blastDisp = <<0, 0, 0>>

NextShader == ShadeVertex

SpecShader == InitShader /\ [][NextShader]_vars

\* HandController from its mount on, with the render loop
InitLife ==
    /\ InitRefs /\ GenIdle /\ ShaderIdle /\ BlendIdle
    /\ DecayIdle /\ SizeIdle /\ ProjIdle
    /\ ctl = CtlMounted
    /\ params = AppParams

NextLife ==
    \/ ResolveVision \/ FailVision \/ CreateLandmarker \/ FailCreate
    \/ GrantCamera \/ DenyCamera \/ LoadedData
    \/ PredictReturn \/ PredictZeroWidth \/ PredictSample
    \/ Unmount
    \/ Frame

SpecLife == InitLife /\ [][NextLife]_vars

\* the generator entered with any particle count and scale
GenAnyPoints == (-3..2) \cup {150}

InitGenAny ==
    /\ InitRefs /\ ShaderIdle /\ BlendIdle
    /\ DecayIdle /\ SizeIdle /\ ProjIdle
    /\ ctl = CtlRunning
    /\ params \in [scale : {-35, 0, 35}]
    /\ numPoints \in GenAnyPoints
    /\ idx = 0
    /\ pts = << >>
    /\ prog = << >>
    /\ gen = [phase |-> GenEntry(numPoints, params), a |-> 0, i |-> 0,
              floatPoints |-> 0]

SpecGenAny == InitGenAny /\ [][NextGen]_vars

\* the scene: the geometry is generated in one piece on the first render,
\* the render loop and the sampling loop run from then on
ScenePoints == 150

InitScene ==
    /\ InitApp /\ ShaderIdle
    /\ numPoints = ScenePoints
    /\ idx = 0
    /\ pts = << >>
    /\ prog = << >>
    /\ gen = [phase |-> GenEntry(numPoints, params), a |-> 0, i |-> 0,
              floatPoints |-> 0]

SceneFrame == gen.phase = "done" /\ Frame

SceneSample == gen.phase = "done" /\ (SampleFrameHand \/ SampleNoHand)

NextScene == NextGen \/ SceneSample \/ SceneFrame

SpecScene == InitScene /\ [][NextScene]_vars

\* the blend section of the vertex shader, over the five values of uMagic
InitBlend ==
    /\ InitRefs /\ GenIdle /\ ShaderIdle
    /\ DecayIdle /\ SizeIdle /\ ProjIdle
    /\ ctl = CtlRunning
    /\ params = AppParams
    /\ blendIn \in BlendInputs
    /\ shMagic = 0
    /\ finalPos = MixPos(0, blendIn)
    /\ noise = Noise(0, blendIn)

NextBlend == BlendVertex

SpecBlend == InitBlend /\ [][NextBlend]_vars

\* a blast: fist frames, then the release and the decay
InitDecay ==
    /\ InitRefs /\ GenIdle /\ BlendIdle /\ SizeIdle /\ ProjIdle
    /\ DecayIdle
    /\ ctl = CtlRunning
    /\ params = AppParams
    /\ particle \in DecayParticles
    /\ shBlast = 0
    /\ vBlastAlpha = VertexBlastAlpha(0)
    /\ blastDisp = <<0, 0, 0>>

NextDecay == ClenchFist \/ ReleaseFist \/ BlastFrame

SpecDecay == InitDecay /\ [][NextDecay]_vars

\* the size parts of the vertex shader
InitSize ==
    /\ InitRefs /\ GenIdle /\ ShaderIdle /\ BlendIdle /\ DecayIdle /\ ProjIdle
    /\ ctl = CtlRunning
    /\ params = AppParams
    /\ SizeIdle

NextSize == SizeVertex

SpecSize == InitSize /\ [][NextSize]_vars

\* the sampling loop and the frames of NumberProjectiles
NextProj ==
    SampleProjHand \/ SampleNoHand \/ ProjFrameReturn \/ ProjFrameSpawn

SpecProj == Init /\ [][NextProj]_vars

\* every division of the smoother is exact on the hands of FramePoses
ExactArithmetic ==
    /\ PinScale % (PinchSpan \div GCD(hand.pinch, PinchSpan)) = 0
    /\ frames < MaxFrames =>
         /\ (VisibleTarget(hand) - uVisible) % 10 = 0
         /\ (PinchValue(hand) - uPinch) % 25 = 0
         /\ (MagicValue(hand) - uMagic) % 25 = 0
         /\ (RotationTarget(hand) - uRotation) % 10 = 0
         /\ uBlast % 50 = 0

----------------------------------------------------------------------------
(* Claims about the extractor and the smoother *)

IsFrameStep == frames' = frames + 1

\* C1: in a run where the hand stays detected and the raw pinch falls from
\* 1.0 (open) to 0.0 (closed), the smoothed magic signal rises monotonically
\* from 0 toward 1 and stays in [0,1]: once the hand is pinched closed, a
\* render frame never lowers the magic signal (pinching reveals structure B).
C1_MagicRisesWhilePinching ==
    [][ (IsFrameStep /\ hand.detected /\ hand.pinch = 0)
          => /\ uMagic' >= uMagic
             /\ uMagic' \in 0..MagScale ]_vars

\* C2: a sample without a hand sets detected to false and leaves x, y,
\* palmX, palmY, pinch, rotation, fingerTips and blast as they were.
C2_NoHandKeepsFields ==
    [][ (sample' = NoLandmarks)
          => /\ hand'.detected = FALSE
             /\ hand'.x = hand.x
             /\ hand'.y = hand.y
             /\ hand'.palmX = hand.palmX
             /\ hand'.palmY = hand.palmY
             /\ hand'.pinch = hand.pinch
             /\ hand'.rotation = hand.rotation
             /\ hand'.fingerTips = hand.fingerTips
             /\ hand'.blast = hand.blast ]_vars

\* a no-hand sample handled after a fist: the fist's values are retained
C2_Witness ==
    /\ sample = NoLandmarks
    /\ ~hand.detected
    /\ hand.blast = 1
    /\ hand.pinch < PinchSpan
    /\ hand.fingerTips /= InitFingerTips

\* squared distance of landmark i from the wrist
C3_D2(lm, i) ==
    (lm[i].x - lm[0].x) * (lm[i].x - lm[0].x)
      + (lm[i].y - lm[0].y) * (lm[i].y - lm[0].y)

\* the non-thumb fingers whose tip is closer to the wrist than 0.9 x base
C3_Curled(lm) ==
    { k \in 2..5 : 100 * C3_D2(lm, fingerTipIndices[k])
                     < 81 * C3_D2(lm, fingerMCPIndices[k]) }

C4_Dist2(lm) ==
    (lm[4].x - lm[8].x) * (lm[4].x - lm[8].x)
      + (lm[4].y - lm[8].y) * (lm[4].y - lm[8].y)
      + (lm[4].z - lm[8].z) * (lm[4].z - lm[8].z)

\* C4: the stored pinch strength is always in [0,1]; for a detected hand at
\* thumb-index distance d it is (d - 0.02)/0.15 clamped: 0 for d <= 0.02,
\* 1 for d >= 0.17.
C4_PinchClamped ==
    /\ hand.pinch \in 0..PinchSpan
    /\ sample /= NoLandmarks =>
         LET d2 == C4_Dist2(sample)
             lo == PinchFloor
             hi == PinchFloor + PinchSpan
         IN  /\ d2 <= lo * lo => hand.pinch = 0
             /\ d2 >= hi * hi => hand.pinch = PinchSpan
             /\ (lo * lo < d2 /\ d2 < hi * hi)
                  => (hand.pinch + PinchFloor) * (hand.pinch + PinchFloor) = d2

\* a hand opened beyond the 0.17 ceiling is stored as pinch 1
C4_Witness ==
    /\ sample /= NoLandmarks
    /\ C4_Dist2(sample) > (PinchFloor + PinchSpan) * (PinchFloor + PinchSpan)
    /\ hand.pinch = PinchSpan

\* C8: the blast amount recovers faster than it builds up: a frame with the
\* trigger inactive leaves less of the blast than a frame with the trigger
\* active leaves of the same distance to 1.
C8_DecayFasterThanRamp ==
    [][ (IsFrameStep /\ BlastTarget(hand) = 0 /\ uBlast > 0)
          => uBlast' < BlastScale - NextBlast(BlastScale - uBlast, 1) ]_vars

\* C10: with the hand not detected, a frame multiplies the smoothed visible
\* signal by 0.9: from v > 0 it strictly decreases and stays strictly
\* positive.
C10_VisibleDecays ==
    [][ (IsFrameStep /\ ~hand.detected /\ uVisible > 0)
          => /\ 10 * uVisible' = 9 * uVisible
             /\ uVisible' < uVisible
             /\ uVisible' > 0 ]_vars

\* the hand was seen for one frame and lost for the next: visible is 0.09
C10_Witness ==
    /\ ~hand.detected
    /\ 100 * uVisible = 9 * VisScale

----------------------------------------------------------------------------
(* Claims about the generator and the blast overlay *)

\* C5: for every generated particle, the structure the shader selects from
\* its progress is the sub-structure whose loop produced its base position.
C5_StructureMatchesLoop ==
    \A k \in 1..Len(prog) : Structure(prog[k], numPoints) = pts[k].kind

C6_Count(kind) == Cardinality({ k \in 1..Len(pts) : pts[k].kind = kind })

\* C6: the generator emits exactly N particles, the four sub-structure
\* counts sum to N, the i-th particle has progress i/N, so every progress is
\* in [0,1) and progress strictly increases in generation order.
C6_ExactlyN ==
    /\ Len(prog) = idx /\ Len(pts) = idx /\ idx <= numPoints
    /\ \A k \in 1..Len(prog) : prog[k] = k - 1 /\ 0 <= prog[k] /\ prog[k] < numPoints
    /\ \A k \in 1..(Len(prog) - 1) : prog[k] < prog[k + 1]
    /\ gen.phase = "done" =>
         /\ Len(prog) = numPoints
         /\ C6_Count("ico") + C6_Count("rings") + C6_Count("spiral")
              + C6_Count("float") = numPoints

\* a finished run in which all four sub-structures received particles
C6_Witness ==
    /\ gen.phase = "done"
    /\ Len(prog) = numPoints
    /\ C6_Count("ico") > 0 /\ C6_Count("rings") > 0
    /\ C6_Count("spiral") > 0 /\ C6_Count("float") > 0
    /\ C6_Count("ico") < IcoPoints(numPoints)

\* C7: floor(0.2N) particles lie on icosahedron edges, equally many on each
\* of the 30 edges; the next floor(0.3N) on the three great circles in
\* equal thirds; the next floor(0.3N) on the spiral; the rest on the
\* floating shell.
C7_CountsMatchShares ==
    gen.phase = "done" =>
        LET ico    == (2 * numPoints) \div 10
            rings  == (3 * numPoints) \div 10
            spiral == (3 * numPoints) \div 10
            on(kind, a) == Cardinality({ k \in 1..Len(pts) :
                                 pts[k].kind = kind /\ pts[k].a = a })
        IN  /\ C6_Count("ico") = ico
            /\ \A e \in 0..(NumEdges - 1) : on("ico", e) = on("ico", 0)
            /\ C6_Count("rings") = rings
            /\ \A r \in 0..2 : on("rings", r) = on("rings", 0)
            /\ C6_Count("spiral") = spiral
            /\ C6_Count("float") = numPoints - ico - rings - spiral
            /\ \A k \in 1..Len(pts) :
                 pts[k].kind = (IF k <= ico THEN "ico"
                                ELSE IF k <= ico + rings THEN "rings"
                                ELSE IF k <= ico + rings + spiral THEN "spiral"
                                ELSE "float")

\* C9: the blast overlay leaves a vertex where it is (zero displacement) and
\* its alpha multiplier at 1 for every blast amount up to 0.01; the
\* multiplier is 1 up to 0.4, does not increase with the blast amount from
\* 0.4 to 1, and is 0 at 1.
C9_BlastAlphaProfile ==
    /\ [](/\ 100 * shBlast <= BlastGrid
             => blastDisp = <<0, 0, 0>> /\ vBlastAlpha = AlphaScale
          /\ 10 * shBlast <= 4 * BlastGrid => vBlastAlpha = AlphaScale
          /\ shBlast = BlastGrid => vBlastAlpha = 0
          /\ vBlastAlpha \in 0..AlphaScale)
    /\ [][ (10 * shBlast >= 4 * BlastGrid /\ shBlast' >= shBlast)
             => vBlastAlpha' <= vBlastAlpha ]_vars

\* a vertex at full blast: scattered and fully faded
C9_Witness ==
    /\ shBlast = BlastGrid
    /\ vBlastAlpha = 0
    /\ blastDisp /= <<0, 0, 0>>

----------------------------------------------------------------------------
(* Failed start, stopped sampling (SpecLife) *)

C11_Failed == ctl.init = "failed" \/ ctl.camera = "denied"

C11_Dark ==
    C11_Failed =>
        /\ ctl.loop = "off"
        /\ hand = InitHandState
        /\ ~hand.detected
        /\ uVisible = 0
        /\ (frames < MaxFrames => ENABLED Frame)

C11_NoRetry ==
    C11_Failed =>
        /\ ctl'.init = ctl.init /\ ctl'.camera = ctl.camera
        /\ ctl'.loop = "off"
        /\ hand' = hand

\* C11: once initMediaPipe has thrown or the camera has been refused, the
\* sampling loop is never started and nothing retries: HandState is never
\* written and keeps detected = false, uVisible is 0 at every render frame,
\* and render frames stay enabled.
C11_FailedStartStaysDark == []C11_Dark /\ [][C11_NoRetry]_vars

C11_Witness == ctl.error = "camera" /\ ctl.mounted /\ frames >= 2

C11_WitnessInit == ctl.error = "create" /\ frames >= 2

\* C12: once predictWebcam has returned at its guard, or the video element
\* is gone, HandState is never written again and the loop stays stopped; a
\* call that reads videoWidth = 0 leaves HandState as it was.
C12_StoppedSamplingKeepsHandState ==
    [][ /\ (ctl.loop = "stopped" => hand' = hand /\ ctl'.loop = "stopped")
        /\ (~ctl.video => hand' = hand)
        /\ (ctl'.width = 0 => hand' = hand) ]_vars

C12_Witness ==
    ctl.loop = "stopped" /\ hand.detected /\ hand.blast = 1 /\ frames >= 1

C12_WitnessZeroWidth ==
    ctl.loop = "scheduled" /\ ctl.width = 0 /\ hand.detected

\* C13: after sampling has stopped, every render frame lowers uVisible (or
\* leaves it at 0), whatever HandState was written last.
C13_StoppedSamplingFades ==
    [][ (ctl.loop = "stopped" /\ IsFrameStep) =>
            /\ uVisible' <= uVisible
            /\ (uVisible > 0 => uVisible' < uVisible) ]_vars

----------------------------------------------------------------------------
(* Invalid configurations (SpecGenAny) *)

C14_Invalid == numPoints <= 0 \/ params.scale < 0

\* C14 as stated: with numPoints <= 0 or a negative scale the generator
\* does not return and no particle is pushed.
C14_InvalidConfigFails ==
    C14_Invalid => gen.phase /= "done" /\ pts = << >> /\ prog = << >>

\* C14: with numPoints <= 0 or a negative scale the generator raises no
\* error; it returns buffers of max(numPoints, 0) particles: empty ones
\* for numPoints <= 0, numPoints particles for a negative scale.
C14_InvalidConfigIsGenerated ==
    C14_Invalid =>
        /\ gen.phase /= "error"
        /\ Len(pts) <= Max(numPoints, 0)
        /\ (gen.phase = "done" =>
               Len(pts) = Max(numPoints, 0) /\ Len(prog) = Len(pts))

C14_Witness ==
    gen.phase = "done" /\ OrbRadius(params) < 0 /\ Len(pts) = ScenePoints

C14_WitnessEmpty == gen.phase = "done" /\ numPoints < 0 /\ pts = << >>

----------------------------------------------------------------------------
(* Snapshots of HandState (Spec) *)

C15_Snapshots ==
    { [DetectedHandState(lm) EXCEPT !.detected = d] :
         lm \in FramePoses, d \in BOOLEAN } \cup {InitHandState}

C15_WriteStep ==
    hand' /= hand =>
        \/ /\ sample' /= NoLandmarks
           /\ hand' = DetectedHandState(sample')
           /\ DOMAIN hand' = DOMAIN InitHandState
        \/ /\ sample' = NoLandmarks
           /\ hand' = [hand EXCEPT !.detected = FALSE]

\* C15: every write of HandState installs a whole snapshot (the nine fields
\* of one detected hand, or the previous snapshot with detected = false),
\* so the HandState a render frame reads is always the snapshot of one
\* sample, never fields of two.
C15_WholeSnapshots ==
    [](hand \in C15_Snapshots) /\ [][C15_WriteStep]_vars

C15_Witness ==
    /\ frames >= 2 /\ ~hand.detected /\ hand.blast = 1
    /\ hand \in C15_Snapshots /\ hand /= InitHandState

----------------------------------------------------------------------------
(* The particle buffers under the render loop (SpecScene) *)

C16_Generated ==
    gen.phase = "done" =>
        /\ Len(pts) = numPoints /\ Len(prog) = numPoints
        /\ \A k \in 1..Len(prog) : prog[k] = k - 1

C16_Step ==
    /\ gen.phase = "done" => pts' = pts /\ prog' = prog
    /\ IsFrameStep => UNCHANGED <<pts, prog, numPoints, hand>>

\* C16: no render frame, with or without a blast, changes a particle's
\* progress or base position: once generated the buffers keep the values
\* of generation (progress (k - 1) / numPoints for particle k), and a frame
\* changes nothing but the uniforms.
C16_FramesKeepParticles == []C16_Generated /\ [][C16_Step]_vars

C16_Witness ==
    /\ gen.phase = "done" /\ Len(prog) = ScenePoints
    /\ frames >= 2 /\ uBlast > 0 /\ hand.blast = 1

----------------------------------------------------------------------------
(* Smoothing targets and ranges *)

\* the target y of a step x -> x + (num/den) * (y - x)
ImpliedTarget(x, xNext, num, den) == x + ((xNext - x) \div num) * den

C17_BlastRamps == uBlast' - uBlast = 4 * ((BlastScale - uBlast) \div 50)

C17_BlastDecays == uBlast - uBlast' = 3 * (uBlast \div 50)

\* C17 as stated: on every render frame, also with detected = false, the
\* blast is smoothed toward 1 exactly when HandState.blast is set and the
\* rotation toward HandState.rotation.
C17_TargetsFollowHandState ==
    [][ IsFrameStep =>
          /\ (hand.blast = 1 => C17_BlastRamps)
          /\ (hand.blast /= 1 => C17_BlastDecays)
          /\ ImpliedTarget(uRotation, uRotation', 1, 10)
                = hand.rotation * RotScale ]_vars

\* C17: on every render frame with detected = true the blast is smoothed
\* toward 1 exactly when HandState.blast is set and the rotation toward
\* HandState.rotation; with detected = false both are smoothed toward 0,
\* whatever blast and rotation the HandState retains.
C17_TargetsFollowDetectedHandState ==
    [][ IsFrameStep =>
          /\ (hand.detected /\ hand.blast = 1 => C17_BlastRamps)
          /\ (~hand.detected \/ hand.blast /= 1 => C17_BlastDecays)
          /\ ImpliedTarget(uRotation, uRotation', 1, 10)
                = IF hand.detected THEN hand.rotation * RotScale ELSE 0
      ]_vars

C17_Witness ==
    /\ ~hand.detected /\ hand.blast = 1 /\ hand.rotation /= 0
    /\ frames >= 2 /\ uBlast > 0 /\ uBlast < BlastScale \div 10
    /\ uRotation > 0

C19_InRange ==
    /\ uVisible \in 0..VisScale
    /\ uPinch \in 0..PinScale
    /\ uMagic \in 0..MagScale
    /\ uBlast \in 0..BlastScale

C19_Step ==
    IsFrameStep =>
        /\ ImpliedTarget(uVisible, uVisible', 1, 10) \in 0..VisScale
        /\ ImpliedTarget(uPinch, uPinch', 3, 25) \in 0..PinScale
        /\ ImpliedTarget(uMagic, uMagic', 2, 25) \in 0..MagScale
        /\ \/ ImpliedTarget(uBlast, uBlast', 4, 50) = BlastScale
           \/ ImpliedTarget(uBlast, uBlast', 3, 50) = 0

\* C19: after any run of samples and render frames uVisible, uPinch, uMagic
\* and uBlast lie in [0,1]: they start at 0, 1, 0, 0 and every frame moves
\* each one from its own value by a fixed fraction (0.1, 0.12, 0.08, and
\* 0.08 or 0.06) of the way to a target in [0,1].
C19_SignalsInRange == []C19_InRange /\ [][C19_Step]_vars

C19_Witness ==
    /\ frames >= 3
    /\ 0 < uVisible /\ uVisible < VisScale
    /\ 0 < uPinch /\ uPinch < PinScale
    /\ 0 < uMagic /\ uMagic < MagScale
    /\ 0 < uBlast /\ uBlast < BlastScale

\* the magic target for HandState.pinch = 0.4 and 0.5 (600 and 750 over
\* PinchSpan): smoothstep gives 13/125 and 44/125
C20_MidMagic(p) ==
    CASE p = 600 -> 13 * (MagScale \div 125)
      [] p = 750 -> 44 * (MagScale \div 125)
      [] OTHER   -> -1

C20_Targets ==
    LET v == ImpliedTarget(uVisible, uVisible', 1, 10)
        p == ImpliedTarget(uPinch, uPinch', 3, 25)
        m == ImpliedTarget(uMagic, uMagic', 2, 25)
        unit == PinScale \div 20
    IN  IF hand.detected
        THEN /\ v = VisScale
             /\ p % unit = 0 /\ (p \div unit) * (PinchSpan \div 20) = hand.pinch
             /\ (10 * hand.pinch <= 3 * PinchSpan => m = 0)
             /\ (10 * hand.pinch >= 8 * PinchSpan => m = MagScale)
             /\ (10 * hand.pinch > 3 * PinchSpan /\ 10 * hand.pinch < 8 * PinchSpan
                    => 0 < m /\ m < MagScale /\ m = C20_MidMagic(hand.pinch))
        ELSE v = 0 /\ p = PinScale /\ m = 0

----------------------------------------------------------------------------
(* The blend at its two ends (SpecBlend) *)

\* C18: with no blast, the blended position is the structure-A position,
\* unrotated, at eased transition 0 and the structure-B position at eased
\* transition 1, and the added noise is zero at uMagic = 0 and uMagic = 1.
C18_BlendEndpoints ==
    /\ EaseMagic(shMagic) = 0 =>
          finalPos = blendIn.butterflyPos /\ noise = <<0, 0, 0>>
    /\ EaseMagic(shMagic) = 32 =>
          finalPos = blendIn.magicPos /\ noise = <<0, 0, 0>>

----------------------------------------------------------------------------
(* The blast decays back to the morph output (SpecDecay) *)

C21_IsFrameStep == uBlastFx' /= uBlastFx \/ decay' /= decay

C21_Step ==
    (C21_IsFrameStep /\ (~hand.detected \/ hand.blast = 0)) =>
        /\ uBlastFx' <= uBlastFx
        /\ (uBlastFx > FxThreshold => uBlastFx' < uBlastFx)
        /\ (uBlastFx <= FxThreshold => uBlastFx' <= FxThreshold)

C21_Settled ==
    /\ decay.idle >= DecayFramesFromOne => uBlastFx <= FxThreshold
    /\ uBlastFx <= FxThreshold =>
          blastDisp = <<0, 0, 0>> /\ vBlastAlpha = AlphaScale

C21_WitnessActive ==
    /\ decay.idle >= 1 /\ uBlastFx > FxThreshold
    /\ blastDisp /= <<0, 0, 0>> /\ ~hand.detected /\ hand.blast = 1

----------------------------------------------------------------------------
(* Claims about the bands, the rings and the point size *)

C22_InBand(b) == { k \in 1..Len(prog) : RingID(prog[k], numPoints) = b }

\* C22: every generated progress has a band index floor(progress x 6) in
\* 0..5, band b is exactly the progress interval [b/6, (b+1)/6), and when
\* the generator has finished the number of particles in each band differs
\* from N/6 by less than 1.
C22_EqualBands ==
    /\ \A k \in 1..Len(prog) :
         LET b == RingID(prog[k], numPoints)
         IN  /\ b \in 0..5
             /\ b * numPoints <= 6 * prog[k]
             /\ 6 * prog[k] < (b + 1) * numPoints
    /\ gen.phase = "done" =>
         \A b \in 0..5 :
            /\ 6 * Cardinality(C22_InBand(b)) > numPoints - 6
            /\ 6 * Cardinality(C22_InBand(b)) < numPoints + 6

\* a finished run whose particle count is not a multiple of 6 and whose
\* bands do not all hold the same number of particles
C22_Witness ==
    /\ gen.phase = "done"
    /\ numPoints > 100 /\ numPoints % 6 /= 0
    /\ Len(prog) = numPoints
    /\ \A b \in 0..5 : Cardinality(C22_InBand(b)) > 0
    /\ Cardinality(C22_InBand(0)) /= Cardinality(C22_InBand(5))

C23_RingIdxs ==
    { RingIdx(prog[k], numPoints) :
        k \in { j \in 1..Len(prog) : Structure(prog[j], numPoints) = "rings" } }

C23_Distinct(idxs) ==
    /\ \A j, k \in idxs :
         j /= k => RingPlane(j) /= RingPlane(k) /\ RotSpeed(j) /= RotSpeed(k)
    /\ \A j \in idxs : (j + 1) \in idxs => RotDir(j + 1) = -RotDir(j)

\* C23 as stated: the ring index of the ring-selected particles ranges over
\* 4 sub-rings, each with its own plane and speed, consecutive ones turning
\* in opposite directions.
C23_FourSubRings ==
    /\ C23_RingIdxs \subseteq 0..3
    /\ C23_Distinct(C23_RingIdxs)
    /\ (gen.phase = "done" /\ numPoints >= 10) => C23_RingIdxs = 0..3

\* C23: the ring index of every ring-selected particle (0.2 <= progress <
\* 0.5) is 0, 1 or 2, so there are 3 sub-rings, all three occurring once
\* the generator has finished with at least 10 particles; they rotate in
\* three different planes (XY, XZ, YZ), consecutive sub-rings in opposite
\* directions, and no two at the same speed.
C23_ThreeSubRings ==
    /\ C23_RingIdxs \subseteq 0..2
    /\ C23_Distinct(C23_RingIdxs)
    /\ (gen.phase = "done" /\ numPoints >= 10) => C23_RingIdxs = 0..2

\* a finished run in which all three sub-rings hold particles
C23_Witness ==
    /\ gen.phase = "done" /\ numPoints > 100
    /\ C23_RingIdxs = 0..2
    /\ \A r \in 0..2 : \E k \in 1..Len(prog) :
          /\ Structure(prog[k], numPoints) = "rings"
          /\ RingIdx(prog[k], numPoints) = r
          /\ RingPlane(r) = <<"xy", "xz", "yz">>[r + 1]

C24_InRange == 10 * orbScale >= 3 * OrbScaleDen /\ orbScale <= OrbScaleDen

\* C24 as stated: the size factor is in [0.3, 1.0] and shrinks as the
\* smoothed pinch signal approaches fully open, i.e. it does not increase
\* with the pinch signal.
C24_ShrinksTowardsOpen ==
    /\ [](C24_InRange)
    /\ [][shPinch' > shPinch => orbScale' <= orbScale]_vars

\* C24: the size factor is in [0.3, 1.0] and grows as the smoothed pinch
\* signal approaches fully open: it does not decrease with the pinch
\* signal, is 0.3 (the floor) for a pinch signal up to 0.2 (fingers
\* together) and 1.0 (full size) from 0.7 up to fully open.
C24_ShrinksTowardsPinched ==
    /\ [](/\ C24_InRange
          /\ (10 * shPinch <= 2 * PinchGrid => 10 * orbScale = 3 * OrbScaleDen)
          /\ (10 * shPinch >= 7 * PinchGrid => orbScale = OrbScaleDen))
    /\ [][shPinch' > shPinch => orbScale' >= orbScale]_vars

\* a vertex shaded with the hand half open: the factor is strictly between
\* the floor and full size
C24_Witness ==
    /\ 100 * shPinch = 45 * PinchGrid
    /\ 10 * orbScale > 3 * OrbScaleDen /\ orbScale < OrbScaleDen

\* band 3, gapped concentric arcs (0.45 <= segmentProgress < 0.65):
\* progress 3/6 + 0.45/6 = 0.575 up to 3/6 + 0.65/6, and the arc progress
\* fract((segmentProgress - 0.45) / 0.2 * 8.0) in hundredths
C25_InArcs == 1000 * vertex.a >= 575 * ProgGrid /\ 6000 * vertex.a < 3650 * ProgGrid

C25_ArcProgress ==
    (((vertex.a - (575 * ProgGrid) \div 1000) * 24000) \div ProgGrid) % 100

C25_InGap == C25_InArcs /\ (C25_ArcProgress <= 15 \/ C25_ArcProgress >= 85)

\* C25: the point size is zero exactly when the structure-B radius is below
\* 0.1 and the band index is greater than 0; a band-3 particle in a gap of
\* the gapped concentric arcs has radius 0.001 and size zero, one on an arc
\* keeps its size, and no band-0 particle is zeroed.
C25_ZeroSizeGuard ==
    /\ pointSize = 0 <=> (radius < 100 /\ (6 * vertex.a) \div ProgGrid > 0)
    /\ C25_InGap => radius = 1 /\ pointSize = 0
    /\ (C25_InArcs /\ ~C25_InGap) => radius >= 6000 /\ pointSize = vertex.size
    /\ 6 * vertex.a < ProgGrid => pointSize = vertex.size /\ pointSize > 0

\* a band-3 vertex in the gap at the end of an arc, drawn with size zero
C25_Witness ==
    /\ C25_InGap /\ C25_ArcProgress >= 85
    /\ radius = 1 /\ pointSize = 0 /\ vertex.size > 0

\* a band-0 vertex at the centre (r < 0.1) that keeps its size
C25_WitnessBandZero ==
    /\ 6 * vertex.a < ProgGrid /\ radius < 100 /\ pointSize = vertex.size

----------------------------------------------------------------------------
(* Claims about the stored HandState, the rings and the projectiles *)

C26_Extended(lm) ==
    { k \in 2..5 : 100 * C3_D2(lm, fingerTipIndices[k])
                     > 144 * C3_D2(lm, fingerMCPIndices[k]) }

\* fingertip i of the stored HandState against landmark tipIdx of the sample
C26_TipWellFormed(ft, lm, tipIdx) ==
    LET dx == lm[tipIdx].x - PalmCenterX(lm)
        dy == lm[tipIdx].y - PalmCenterY(lm)
        d2 == dx * dx + dy * dy
        norm == Sqrt(ft.dirX * ft.dirX + ft.dirY * ft.dirY)
    IN  /\ ft.x = LM - lm[tipIdx].x /\ ft.y = lm[tipIdx].y
        /\ d2 <= 100 => ft.dirX = 0 /\ ft.dirY = 0
        /\ d2 > 100 =>
             /\ norm >= DirScale - 2
             /\ norm <= DirScale + DirScale \div Sqrt(d2) + 2
             /\ ft.dirX * dx <= 0 /\ ft.dirY * dy >= 0
             /\ (dx /= 0 => ft.dirX /= 0) /\ (dy /= 0 => ft.dirY /= 0)

\* C26: the HandState written for a detected hand has blast 0 or 1, five
\* fingertips in the order thumb, index, middle, ring, pinky (landmarks 4,
\* 8, 12, 16, 20, x mirrored), each with the zero direction when the tip is
\* within 0.001 of the palm centre and otherwise a unit direction (up to
\* rounding) with its x component mirrored; each non-thumb finger is
\* extended, curled or neutral and never two of them, so the extended and
\* curled counts add up to at most 4.
C26_WellFormedHandState ==
    sample /= NoLandmarks =>
        /\ hand.detected
        /\ hand.blast \in {0, 1}
        /\ DOMAIN hand.fingerTips = 1..5
        /\ \A i \in 1..5 :
             C26_TipWellFormed(hand.fingerTips[i], sample, <<4, 8, 12, 16, 20>>[i])
        /\ C26_Extended(sample) \cap C3_Curled(sample) = {}
        /\ FingersExtended(sample, 2) = Cardinality(C26_Extended(sample))
        /\ FingersCurled(sample, 2) = Cardinality(C3_Curled(sample))
        /\ FingersExtended(sample, 2) + FingersCurled(sample, 2) <= 4

\* a fist whose thumb tip lies on the palm centre: zero thumb direction,
\* unit directions for the other four fingers
C26_Witness ==
    /\ sample = ThumbOnPalmPose
    /\ hand.detected /\ hand.blast = 1
    /\ hand.fingerTips[1].dirX = 0 /\ hand.fingerTips[1].dirY = 0
    /\ \A i \in 2..5 : hand.fingerTips[i].dirX /= 0 \/ hand.fingerTips[i].dirY /= 0

\* a hand with two curled and two neutral fingers
C26_WitnessNeutral ==
    /\ sample /= NoLandmarks /\ hand.detected
    /\ Cardinality(C3_Curled(sample)) = 2
    /\ C26_Extended(sample) = {}
    /\ FingersExtended(sample, 2) + FingersCurled(sample, 2) = 2

\* C27: every particle the generator placed on great circle k (0: XY, 1: XZ,
\* 2: YZ) is selected as a ring particle by the shader and gets ring index
\* k, so it is rotated within the plane of its own circle.
C27_RingIndexMatchesCircle ==
    \A k \in 1..Len(prog) :
        pts[k].kind = "rings" =>
            /\ Structure(prog[k], numPoints) = "rings"
            /\ RingIdx(prog[k], numPoints) = pts[k].a
            /\ RingPlane(RingIdx(prog[k], numPoints)) = <<"xy", "xz", "yz">>[pts[k].a + 1]

C28_FistState ==
    /\ hand.blast = 1 => 10 * hand.pinch < 3 * PinchSpan
    /\ BlastTarget(hand) = 1 => MagicValue(hand) = 0

C28_IsSpawn == lastSpawnTime' /= lastSpawnTime \/ nextId' /= nextId

\* C28: a HandState with blast = 1 has pinch < 0.3, so whenever a frame's
\* blast target is 1 its magic target is 0, and no number projectile is
\* spawned in a frame whose HandState is detected with blast = 1.
C28_BlastExcludesMagic ==
    /\ [](C28_FistState)
    /\ [][C28_IsSpawn => ~(hand.detected /\ hand.blast = 1)]_vars

\* a frame ran while a detected fist was held, after an earlier spawn, and
\* spawned nothing
C28_Witness ==
    /\ hand.detected /\ hand.blast = 1
    /\ BlastTarget(hand) = 1 /\ MagicValue(hand) = 0
    /\ nextId = 1
    /\ \A p \in projectiles : clock > p.startTime
    /\ projectiles /= {}

\* initialization has finished and the mount effect's cleanup has run
C29_TornDown == ~ctl.mounted /\ ctl.init \in {"done", "failed"}

\* C29: under every interleaving of the detector initialization with the
\* unmount, once the cleanup has run and initialization has finished no
\* created detector remains open, and after the unmount the camera is not
\* requested, no listener is added and no sample is taken.
C29_CreatedDetectorIsClosed ==
    /\ [](C29_TornDown => ctl.landmarker /= "open")
    /\ [][~ctl.mounted =>
            /\ ctl'.camera = "asking" => ctl.camera = "asking"
            /\ ctl'.loop = "listening" => ctl.loop = "listening"
            /\ hand' = hand /\ sample' = sample]_vars

\* C30: every spawned projectile is removed: after any render frame, at
\* time t, the list holds no projectile spawned at or before t - 2.0,
\* whatever the hand did since the spawn.
C30_SpawnedIsRemoved ==
    [][clock' /= clock =>
         \A p \in projectiles' : clock' - p.startTime < Lifetime]_vars


====
